---- MODULE Spec2Model ----
(***************************************************************************)
(* Model of the workspace splitter (splitter.cxx).  A TString is a         *)
(* sequence of one-character strings.  The splitter object is the state;  *)
(* fillIndices, the setters and makeWorkspace are the actions.             *)
(***************************************************************************)
EXTENDS Integers, Sequences, FiniteSets, TLC

VARIABLES
  pc,             \* position of the driver / of makeWorkspace
  status,         \* "running", "aborted" (alertAndAbort, assert), "crashed" / "undefined" (null dereference)
  ndebug,         \* TRUE when the build defines NDEBUG (assert compiled out)
  arg,            \* the TString parameter of the current / last fillIndices call
  atEntry,        \* m_useIndices as it was when the last fillIndices call was entered
  m_numChannels,  \* m_cat->numBins(0)
  m_useIndices,   \* std::vector<int> m_useIndices
  m_reBin,        \* rebin target, -1 after construction
  m_editRFV,      \* formula edit mode, -1 after construction
  m_mc,           \* the source ModelConfig: [poi, gobs, cobs: sets of names, hasCobs]
  constPars,      \* names of the parameters with isConstant()
  chanPars,       \* bin -> names of the parameters of the channel pdf (indivNuis), in iteration order
  noPdf,          \* bins for which m_pdf->getPdf(label) is null
  chanData,       \* bin -> events of the dataset m_dataList holds for the bin's label
  renamed,        \* bins whose dataset in m_dataList was renamed to <label>_old
  catBin,         \* current bin of m_cat
  mw_i,           \* loop counter i of makeWorkspace
  subCat,         \* labels defined in subCat, in definition order
  subSets,        \* [poi, gobs, cobs, nuis]: member names of subPoi, subGobs, subCobs, subNuis
  subPdfMap,      \* label -> bin whose pdf is mapped
  subDataMap,     \* label -> events of the new dataset
  dataPath,       \* per finished loop iteration: [bin, path], path "direct" or "rebin"
  subData,        \* events of the composed dataset, [cat, x, w]
  outputWritten,  \* TRUE once subComb->Write() ran
  nodes,          \* the RooFormulaVar nodes by id: [name, expr, deps], a dependent is
                  \* [name, rfv]: rfv is the id of a RooFormulaVar, 0 for any other node
  components,     \* ids of the RooFormulaVar components of subPdf, in iteration order
  edit_i,         \* loop counter i of the component loop
  rfvOut,         \* per visited component: [id, res], res the result of editRFV
  m_snapshots,    \* std::vector<TString> m_snapshots: the snapshot names to copy
  srcSnapshots,   \* snapshots of m_comb: name -> (parameter name -> value)
  srcVals,        \* current values of the parameters of m_comb
  subVals,        \* current values of the parameters of subComb
  valsBefore,     \* subVals as it was when the last snapshot iteration was entered
  subSnapshots,   \* snapshots of subComb: name -> (parameter name -> value)
  snap_i,         \* position in the loop over m_snapshots
  disk,           \* replace_POI_with_product: path -> the file there,
                  \* [exists, wsName, hasMc, poi, writes]
  origPoi,        \* path -> the POI names of the file before the batch
  poi_i,          \* position in the loop over files
  batchLog        \* per entry gone through: "written" or "skipped" (the message printed)

fillVars == <<arg, atEntry, m_useIndices>>
cfgVars == <<ndebug, m_numChannels, m_reBin, m_editRFV>>
srcVars == <<m_mc, constPars, chanPars, noPdf, chanData, nodes, components,
             m_snapshots, srcSnapshots>>
snapVars == <<srcVals, subVals, valsBefore, subSnapshots, snap_i>>
mwVars == <<renamed, catBin, mw_i, subCat, subSets, subPdfMap, subDataMap, dataPath,
            subData, outputWritten, snapVars>>
rfvVars == <<edit_i, rfvOut>>
poiVars == <<disk, origPoi, poi_i, batchLog>>
vars == <<pc, status, fillVars, cfgVars, srcVars, mwVars, rfvVars, poiVars>>

----------------------------------------------------------------------------
(* Bounds *)
MaxChannels == 3
MaxTokens == 2
MaxSel == 2
MaxEvents == 2
MaxBins == 3
MaxTerms == 2
MaxDeps == 3
MaxSnapshots == 2
MaxBroken == 1

----------------------------------------------------------------------------
(* TString helpers *)

Digits == <<"0", "1", "2", "3", "4", "5", "6", "7", "8", "9">>
IsDigit(c) == \E d \in 1..10 : Digits[d] = c
DigitVal(c) == (CHOOSE d \in 1..10 : Digits[d] = c) - 1

RECURSIVE Filter(_, _)
\* the characters of s other than c, in order
Filter(s, c) ==
  IF s = <<>> THEN <<>>
  ELSE IF Head(s) = c THEN Filter(Tail(s), c)
  ELSE <<Head(s)>> \o Filter(Tail(s), c)

LowerChar(c) ==
  CASE c = "A" -> "a"
    [] c = "L" -> "l"
    [] c = "X" -> "x"
    [] OTHER -> c

\* TString::ToLower
ToLower(s) == [i \in 1..Len(s) |-> LowerChar(s[i])]

\* auxUtil::removeWhiteSpace: every blank is removed
removeWhiteSpace(s) == Filter(s, " ")

RECURSIVE TokenizeFrom(_, _, _)
\* TString::Tokenize with a one-character delimiter: the maximal runs of
\* characters other than the delimiter; empty runs give no token.
TokenizeFrom(s, delim, cur) ==
  IF s = <<>> THEN (IF cur = <<>> THEN <<>> ELSE <<cur>>)
  ELSE IF Head(s) = delim
       THEN (IF cur = <<>> THEN <<>> ELSE <<cur>>) \o TokenizeFrom(Tail(s), delim, <<>>)
       ELSE TokenizeFrom(Tail(s), delim, Append(cur, Head(s)))

Tokenize(s, delim) == TokenizeFrom(s, delim, <<>>)

RECURSIVE DigitPrefixVal(_, _)
\* atoi on the digits: the value of the longest prefix of digits, acc so far
DigitPrefixVal(s, acc) ==
  IF s = <<>> \/ ~IsDigit(Head(s)) THEN acc
  ELSE DigitPrefixVal(Tail(s), 10 * acc + DigitVal(Head(s)))

\* TString::Atoi: blanks are removed, then atoi: an optional sign and the
\* leading digits; 0 when there are none.
Atoi(s) ==
  LET t == Filter(s, " ")
  IN  IF t # <<>> /\ Head(t) = "-" THEN 0 - DigitPrefixVal(Tail(t), 0)
      ELSE DigitPrefixVal(t, 0)

\* lo, lo+1, ..., hi as a sequence (empty when lo > hi)
Range(lo, hi) == [k \in 1..(IF hi >= lo THEN hi - lo + 1 ELSE 0) |-> lo + k - 1]

----------------------------------------------------------------------------
(* splitter::fillIndices *)

\* FillToken with a range token pushing only its two end points
FillTokenEndpointsOnly(iStr, nd) ==
  LET jArray == Tokenize(iStr, "-")
      jNum == Len(jArray)
  IN  IF jNum = 1 THEN [add |-> <<Atoi(Filter(jArray[1], " "))>>, st |-> "running"]
      ELSE IF jNum = 2 THEN
        LET int1 == Atoi(jArray[1])
            int2 == Atoi(jArray[2])
        IN  IF int1 > int2 /\ ~nd THEN [add |-> <<>>, st |-> "aborted"]
            ELSE [add |-> IF int1 <= int2 THEN <<int1, int2>> ELSE <<>>, st |-> "running"]
      ELSE [add |-> <<>>, st |-> "aborted"]

\* one token of the comma-separated list: the indices it pushes and whether
\* the run goes on
FillToken(iStr, nd) ==
  LET jArray == Tokenize(iStr, "-")
      jNum == Len(jArray)
  IN  IF jNum = 1 THEN [add |-> <<Atoi(Filter(jArray[1], " "))>>, st |-> "running"]
      ELSE IF jNum = 2 THEN
        LET int1 == Atoi(jArray[1])
            int2 == Atoi(jArray[2])
        IN  \* assert(int1 <= int2): aborts unless compiled out
            IF int1 > int2 /\ ~nd THEN [add |-> <<>>, st |-> "aborted"]
            ELSE [add |-> Range(int1, int2), st |-> "running"]
      ELSE [add |-> <<>>, st |-> "aborted"]   \* alertAndAbort("Invalid syntax")

RECURSIVE FillLoop(_, _, _)
\* the loop over the comma-separated tokens, from token list iArray, with
\* acc the indices pushed so far; stops at the first abort
FillLoop(iArray, nd, acc) ==
  IF iArray = <<>> THEN [idx |-> acc, st |-> "running"]
  ELSE LET r == FillToken(Head(iArray), nd)
       IN  IF r.st = "aborted" THEN [idx |-> acc, st |-> "aborted"]
           ELSE FillLoop(Tail(iArray), nd, acc \o r.add)

\* the whole function: m_useIndices after the call and the run's status
FillIndicesResult(indices, use, num, nd) ==
  LET low == ToLower(indices)
  IN  IF low = <<"a", "l", "l">> THEN [idx |-> use \o Range(0, num - 1), st |-> "running"]
      ELSE FillLoop(Tokenize(removeWhiteSpace(low), ","), nd, use)

----------------------------------------------------------------------------
(* Inputs of fillIndices: comma-joined lists of tokens *)

Tokens ==
  { <<"0">>, <<"2">>, <<"1", "0">>, <<"1", "-", "2">>, <<"2", "-", "1">>,
    <<"x">>, <<"1", "-", "2", "-", "0">>, <<" ", "1">>, <<>> }

RECURSIVE Join(_)
Join(ts) ==
  IF ts = <<>> THEN <<>>
  ELSE IF Len(ts) = 1 THEN ts[1]
  ELSE ts[1] \o <<",">> \o Join(Tail(ts))

TokenLists(n) == UNION { [1..k -> Tokens] : k \in 1..n }

FillInputs ==
  { Join(ts) : ts \in TokenLists(MaxTokens) }
    \cup { <<"a", "l", "l">>, <<"A", "L", "L">>, <<"A", "l", "l">>,
           <<"0", "-", "2", ",", "5">> }

----------------------------------------------------------------------------
(* The source model *)

\* the labels of the source category by bin, and their std::map key order
CatLabels == <<"ggF", "VBF", "VH", "ttH", "tHq">>
SortedLabels == <<"VBF", "VH", "ggF", "tHq", "ttH">>
CatLabel(bin) == CatLabels[bin + 1]

Names == {"mu", "theta"}

\* a weight is counted in halves: w = 2 is the weight 1.0, w = 3 is 1.5;
\* a value x is the fraction <<numerator, denominator>>
EventKinds ==
  { [x |-> <<1, 1>>, w |-> 2], [x |-> <<7, 1>>, w |-> 2],
    [x |-> <<7, 1>>, w |-> 3], [x |-> <<13, 1>>, w |-> 1] }

DataSets == UNION { [1..k -> EventKinds] : k \in 0..MaxEvents }

\* the declared range of a channel's first observable
ObsRange == [min |-> 0, max |-> 12]

RECURSIVE SumW(_)
\* RooAbsData::sumEntries, in halves
SumW(d) == IF d = <<>> THEN 0 ELSE Head(d).w + SumW(Tail(d))

SeqRange(q) == {q[k] : k \in 1..Len(q)}

----------------------------------------------------------------------------
(* splitter::makeWorkspace, the channel loop *)

\* RooCategory::setBin: an index outside 0..numBins-1 is reported and the
\* category keeps its current bin
SetBin(bin, index, num) == IF index >= 0 /\ index < num THEN index ELSE bin

\* RooCategory::defineType with the label first in the list
DefineTypeFront(cat, label) ==
  IF label \in SeqRange(cat) THEN cat ELSE <<label>> \o cat

\* RooCategory::defineType: a label already defined is refused
DefineType(cat, label) ==
  IF label \in SeqRange(cat) THEN cat ELSE Append(cat, label)

\* RooArgSet::add: an element with a name already in the set is refused
AddArg(set, name) == IF name \in SeqRange(set) THEN set ELSE Append(set, name)

\* ClassifyOne with the global observables looked up before the POIs
ClassifyOneGobsFirst(v, mc, const, sets) ==
  IF v \in mc.gobs THEN [sets EXCEPT !.gobs = AddArg(@, v)]
  ELSE IF v \in mc.poi THEN [sets EXCEPT !.poi = AddArg(@, v)]
  ELSE IF mc.hasCobs /\ v \in mc.cobs THEN [sets EXCEPT !.cobs = AddArg(@, v)]
  ELSE IF v \notin const THEN [sets EXCEPT !.nuis = AddArg(@, v)]
  ELSE sets

\* the body of the loop over indivNuis for the parameter named v
ClassifyOne(v, mc, const, sets) ==
  IF v \in mc.poi THEN [sets EXCEPT !.poi = AddArg(@, v)]
  ELSE IF v \in mc.gobs THEN [sets EXCEPT !.gobs = AddArg(@, v)]
  ELSE IF mc.hasCobs /\ v \in mc.cobs THEN [sets EXCEPT !.cobs = AddArg(@, v)]
  ELSE IF v \notin const THEN [sets EXCEPT !.nuis = AddArg(@, v)]
  ELSE sets

RECURSIVE ClassifyLoop(_, _, _, _)
\* the loop over indivNuis
ClassifyLoop(pars, mc, const, sets) ==
  IF pars = <<>> THEN sets
  ELSE ClassifyLoop(Tail(pars), mc, const, ClassifyOne(Head(pars), mc, const, sets))

\* rebuildCatData with every event added with the weight 1
rebuildCatDataUnitWeight(datai) == [j \in 1..Len(datai) |-> [x |-> datai[j].x, w |-> 2]]

\* splitter::rebuildCatData: one event per source event, with its weight
rebuildCatData(datai) == [j \in 1..Len(datai) |-> [x |-> datai[j].x, w |-> datai[j].w]]

\* TH1 bin of the value x for n bins over the observable's range: 0 is the
\* underflow and n + 1 the overflow bin
FindBin(x, n) ==
  IF x[1] < ObsRange.min * x[2] THEN 0
  ELSE IF x[1] >= ObsRange.max * x[2] THEN n + 1
  ELSE 1 + ((x[1] - ObsRange.min * x[2]) * n) \div ((ObsRange.max - ObsRange.min) * x[2])

RECURSIVE BinContent(_, _, _)
\* the summed weight of the events of d in bin i
BinContent(d, i, n) ==
  IF d = <<>> THEN 0
  ELSE (IF FindBin(Head(d).x, n) = i THEN Head(d).w ELSE 0) + BinContent(Tail(d), i, n)

\* TAxis::GetBinCenter(i), as a fraction
BinCenter(i, n) ==
  <<2 * n * ObsRange.min + (2 * i - 1) * (ObsRange.max - ObsRange.min), 2 * n>>

\* the rebin branch: one event per bin 1..n of the histogram
RebinData(datai, n) == [i \in 1..n |-> [x |-> BinCenter(i, n), w |-> BinContent(datai, i, n)]]

\* bool isBinned of the rebin decision; sumEntries() is stored in an int
IsBinned(datai, reBin) ==
  LET numEntries == Len(datai)
      sumEntries == SumW(datai) \div 2
  IN  (numEntries # sumEntries) \/ (numEntries < reBin)

\* the dataset branch of the loop body: the path taken and the new dataset
HandleDataset(datai, reBin) ==
  IF reBin > 0
  THEN IF IsBinned(datai, reBin)
       THEN [path |-> "direct", data |-> rebuildCatData(datai)]
       ELSE [path |-> "rebin", data |-> RebinData(datai, reBin)]
  ELSE [path |-> "direct", data |-> rebuildCatData(datai)]

RECURSIVE ComposeData(_, _)
\* RooDataSet(..., Index(subCat), Import(subDataMap)): the events of every
\* mapped dataset under its label, in the map's key order
ComposeData(labels, map) ==
  IF labels = <<>> THEN <<>>
  ELSE (IF Head(labels) \in DOMAIN map
        THEN [j \in 1..Len(map[Head(labels)]) |->
                [cat |-> Head(labels), x |-> map[Head(labels)][j].x, w |-> map[Head(labels)][j].w]]
        ELSE <<>>)
       \o ComposeData(Tail(labels), map)

----------------------------------------------------------------------------
(* splitter::makeWorkspace, the snapshot loop.  A workspace is the current  *)
(* values of its parameters and its named snapshots.                        *)

\* the name of the temporary snapshot
TmpName == "tmp"

\* RooWorkspace::loadSnapshot: the values of the snapshot's parameters that
\* the workspace has are assigned; the values are unchanged without one
LoadSnapshot(vals, snaps, name) ==
  IF name \in DOMAIN snaps
  THEN [p \in DOMAIN vals |-> IF p \in DOMAIN snaps[name] THEN snaps[name][p] ELSE vals[p]]
  ELSE vals

\* RooWorkspace::saveSnapshot(name, params, importValues): the parameters of
\* the workspace named in params are saved, with the workspace's values or
\* with those of params; a snapshot of that name is replaced
SaveSnapshot(vals, snaps, name, params, importValues) ==
  LET actualParams == DOMAIN vals \cap DOMAIN params
      snapshot == [p \in actualParams |-> IF importValues THEN params[p] ELSE vals[p]]
  IN  [n \in DOMAIN snaps \cup {name} |-> IF n = name THEN snapshot ELSE snaps[n]]

\* the body of the loop for one snapshot name: the new snapshots and values
\* of subComb
CopySnapshot(vals, snaps, src, snapshotName) ==
  IF snapshotName \in DOMAIN src
  THEN LET snapshot == src[snapshotName]
           withTmp == SaveSnapshot(vals, snaps, TmpName, snapshot, FALSE)
           saved == SaveSnapshot(vals, withTmp, snapshotName, snapshot, TRUE)
       IN  [snaps |-> saved, vals |-> LoadSnapshot(vals, saved, TmpName)]
  ELSE [snaps |-> snaps, vals |-> vals]

----------------------------------------------------------------------------
(* splitter::editRFV *)

RECURSIVE Contains(_, _)
\* TString::Contains
Contains(s, sub) ==
  IF Len(s) < Len(sub) THEN FALSE
  ELSE IF SubSeq(s, 1, Len(sub)) = sub THEN TRUE
  ELSE Contains(Tail(s), sub)

RECURSIVE ReplaceAll(_, _, _)
\* TString::ReplaceAll: the occurrences of old, found left to right from the
\* end of the previous replacement, are replaced by new
ReplaceAll(s, old, new) ==
  IF old = <<>> \/ Len(s) < Len(old) THEN s
  ELSE IF SubSeq(s, 1, Len(old)) = old
       THEN new \o ReplaceAll(SubSeq(s, Len(old) + 1, Len(s)), old, new)
       ELSE <<Head(s)>> \o ReplaceAll(Tail(s), old, new)

RECURSIVE Decimal(_)
Decimal(i) == IF i < 10 THEN <<Digits[i + 1]>> ELSE Decimal(i \div 10) \o <<Digits[(i % 10) + 1]>>

\* TString::Format("@%d", i)
AtLabel(i) == <<"@">> \o Decimal(i)

\* the index array with the shortest names first
SortUp(lens, tieUp) ==
  LET n == Len(lens)
      before(j, i) == lens[j] < lens[i] \/ (lens[j] = lens[i] /\ IF tieUp THEN j < i ELSE j > i)
  IN  [k \in 1..n |-> CHOOSE i \in 1..n : Cardinality({j \in 1..n : before(j, i)}) = k - 1]

\* TMath::Sort(num, nameLength, indice, true): the index array in order of
\* decreasing length; the order of equal lengths is the implementation's
SortDown(lens, tieUp) ==
  LET n == Len(lens)
      before(j, i) == lens[j] > lens[i] \/ (lens[j] = lens[i] /\ IF tieUp THEN j < i ELSE j > i)
  IN  [k \in 1..n |-> CHOOSE i \in 1..n : Cardinality({j \in 1..n : before(j, i)}) = k - 1]

RECURSIVE RenameLoop(_, _, _)
\* the replacement loop: dependent order[k] (1-based here) has the label
\* @(order[k] - 1)
RenameLoop(expr, deps, order) ==
  IF order = <<>> THEN expr
  ELSE RenameLoop(ReplaceAll(expr, deps[Head(order)].name, AtLabel(Head(order) - 1)),
                  deps, Tail(order))

\* the raw-name rewrite of the expression
RawRewrite(expr, deps, tieUp) ==
  RenameLoop(expr, deps, SortDown([i \in 1..Len(deps) |-> Len(deps[i].name)], tieUp))

\* the TFormula rewrite of the expression
BracketRewrite(expr) == ReplaceAll(ReplaceAll(expr, <<"x", "[">>, <<"@">>), <<"]">>, <<>>)

NullResult == [kind |-> "null"]

RECURSIVE editRFV(_, _, _, _)
RECURSIVE VarListLoop(_, _, _, _, _)
\* the loop over oldVar->dependents() that fills varList: the list, or
\* "nullref" when *newParg is formed from a null newParg
VarListLoop(deps, ns, mode, tieUp, acc) ==
  IF deps = <<>> THEN [kind |-> "list", list |-> acc]
  ELSE IF Head(deps).rfv # 0
       THEN LET newParg == editRFV(Head(deps).rfv, ns, mode, tieUp)
            IN  IF newParg.kind = "node"
                THEN VarListLoop(Tail(deps), ns, mode, tieUp, Append(acc, newParg))
                ELSE [kind |-> "nullref"]
       ELSE VarListLoop(Tail(deps), ns, mode, tieUp,
                        Append(acc, [kind |-> "arg", name |-> Head(deps).name]))

\* editRFV(oldVar) for the node with the given id: the null result, a new
\* node, or "nullref" when a null pointer was dereferenced on the way
editRFV(id, ns, mode, tieUp) ==
  LET varName == ns[id].name
      formExpr == ns[id].expr
      isTFormula == Contains(formExpr, <<"x", "[">>) /\ Contains(formExpr, <<"]">>)
  IN  IF Contains(formExpr, <<"@">>) THEN NullResult
      ELSE IF isTFormula /\ mode < 2 THEN NullResult
      ELSE IF ~isTFormula /\ mode < 1 THEN NullResult
      ELSE LET newFormExpr == IF isTFormula THEN BracketRewrite(formExpr)
                              ELSE RawRewrite(formExpr, ns[id].deps, tieUp)
               varList == VarListLoop(ns[id].deps, ns, mode, tieUp, <<>>)
           IN  IF varList.kind = "nullref" THEN [kind |-> "nullref"]
               ELSE [kind |-> "node", name |-> varName, expr |-> newFormExpr,
                     deps |-> varList.list]

----------------------------------------------------------------------------
(* Formula nodes of the source model *)

NameA == <<"a">>
NameAB == <<"a", "b">>
NameABC == <<"a", "b", "c">>
NameG == <<"g">>

\* the dependents a node may have: three variables and the RooFormulaVar g
DepCandidates ==
  { [name |-> NameA, rfv |-> 0], [name |-> NameAB, rfv |-> 0], [name |-> NameABC, rfv |-> 0],
    [name |-> NameG, rfv |-> 2] }

DepLists ==
  { q \in UNION { [1..k -> DepCandidates] : k \in 0..MaxDeps } :
      \A i, j \in 1..Len(q) : i # j => q[i] # q[j] }

ExprTerms == { NameA, NameAB, NameABC, NameG, <<"@", "0">>, <<"x", "[", "0", "]">> }

RECURSIVE JoinPlus(_)
JoinPlus(ts) ==
  IF Len(ts) = 1 THEN ts[1] ELSE ts[1] \o <<"+">> \o JoinPlus(Tail(ts))

Exprs == { JoinPlus(ts) : ts \in UNION { [1..k -> ExprTerms] : k \in 1..MaxTerms } }

ChildExprs == { <<"a", "+", "a", "b">>, <<"@", "0", "+", "@", "1">>,
                <<"x", "[", "0", "]", "+", "x", "[", "1", "]">> }

ChildDeps == << [name |-> NameA, rfv |-> 0], [name |-> NameAB, rfv |-> 0] >>

NodesOf(expr, deps, childExpr) ==
  1 :> [name |-> <<"f">>, expr |-> expr, deps |-> deps] @@
  2 :> [name |-> NameG, expr |-> childExpr, deps |-> ChildDeps]

DefaultNodes == NodesOf(NameA, << [name |-> NameA, rfv |-> 0] >>, <<"a", "+", "a", "b">>)

HasChild(ns) == \E k \in 1..Len(ns[1].deps) : ns[1].deps[k].rfv = 2

----------------------------------------------------------------------------
(* Actions *)

Ready == pc \in {"constructed", "idle"} /\ status = "running"

EmptySets == [poi |-> <<>>, gobs |-> <<>>, cobs |-> <<>>, nuis |-> <<>>]

\* the splitter's own fields when the constructor returns
InitSplitter ==
  /\ pc = "constructed"
  /\ status = "running"
  /\ arg = <<>>
  /\ atEntry = <<>>
  /\ m_useIndices = <<>>
  /\ m_reBin = -1
  /\ m_editRFV = -1
  /\ renamed = {}
  /\ catBin = 0
  /\ mw_i = 0
  /\ subCat = <<>>
  /\ subSets = EmptySets
  /\ subPdfMap = <<>>
  /\ subDataMap = <<>>
  /\ dataPath = <<>>
  /\ subData = <<>>
  /\ outputWritten = FALSE
  /\ edit_i = 0
  /\ rfvOut = <<>>
  /\ subVals = <<>>
  /\ valsBefore = <<>>
  /\ subSnapshots = <<>>
  /\ snap_i = 0

\* a source without snapshots to copy, every parameter at 0
NoSnapshots ==
  /\ m_snapshots = <<>>
  /\ srcSnapshots = <<>>
  /\ srcVals = [p \in Names |-> 0]

\* the batch of replace_POI_with_product has not run
BatchIdle ==
  /\ disk = <<>>
  /\ origPoi = <<>>
  /\ poi_i = 0
  /\ batchLog = <<>>

\* a fixed source model: parameters and datasets by bin
ParTable == << <<"mu", "theta">>, <<"theta">>, <<"theta", "mu">>, <<"mu">>, <<"mu", "theta">> >>
DefaultMc == [poi |-> {"mu"}, gobs |-> {}, cobs |-> {}, hasCobs |-> FALSE]
DefaultData(bin) == [j \in 1..(bin + 1) |-> [x |-> <<j, 1>>, w |-> 2]]

\* every ModelConfig over Names; without conditional observables the set is null
ModelConfigs ==
  { [poi |-> p, gobs |-> g, cobs |-> c, hasCobs |-> h] :
      p \in SUBSET Names, g \in SUBSET Names, c \in SUBSET Names, h \in BOOLEAN }
  \ { mc \in [poi : SUBSET Names, gobs : SUBSET Names, cobs : SUBSET Names, hasCobs : {FALSE}] :
        mc.cobs # {} }

\* range specifications with every input shape
InitFill ==
  /\ InitSplitter
  /\ BatchIdle
  /\ NoSnapshots
  /\ nodes = DefaultNodes
  /\ components = <<1>>
  /\ ndebug \in BOOLEAN
  /\ m_numChannels \in 1..MaxChannels
  /\ m_mc = DefaultMc
  /\ constPars = {}
  /\ chanPars = [bin \in 0..(m_numChannels - 1) |-> ParTable[bin + 1]]
  /\ noPdf = {}
  /\ chanData = [bin \in 0..(m_numChannels - 1) |-> DefaultData(bin)]

\* every ModelConfig and constancy of the parameters; at most one bin has no pdf
InitModel ==
  /\ InitSplitter
  /\ BatchIdle
  /\ NoSnapshots
  /\ nodes = DefaultNodes
  /\ components = <<1>>
  /\ ndebug = FALSE
  /\ m_numChannels \in 1..MaxChannels
  /\ m_mc \in ModelConfigs
  /\ constPars \in SUBSET Names
  /\ chanPars = [bin \in 0..(m_numChannels - 1) |-> ParTable[bin + 1]]
  /\ noPdf \in {{}} \cup {{bin} : bin \in 0..(m_numChannels - 1)}
  /\ chanData = [bin \in 0..(m_numChannels - 1) |-> DefaultData(bin)]

\* every dataset of up to MaxEvents events in one bin
InitData ==
  /\ InitSplitter
  /\ BatchIdle
  /\ NoSnapshots
  /\ nodes = DefaultNodes
  /\ components = <<1>>
  /\ ndebug \in BOOLEAN
  /\ m_numChannels \in 1..MaxChannels
  /\ m_mc = DefaultMc
  /\ constPars = {}
  /\ chanPars = [bin \in 0..(m_numChannels - 1) |-> ParTable[bin + 1]]
  /\ noPdf = {}
  /\ \E probe \in 0..(m_numChannels - 1), d \in DataSets :
       chanData = [bin \in 0..(m_numChannels - 1) |-> IF bin = probe THEN d ELSE DefaultData(bin)]

\* the driver calls fillIndices(indices); further calls are followed while
\* the selection is shorter than MaxSel
CallFillIndices(indices) ==
  /\ Ready
  /\ Len(m_useIndices) < MaxSel
  /\ pc' = "fillIndices"
  /\ arg' = indices
  /\ atEntry' = m_useIndices
  /\ UNCHANGED <<status, m_useIndices, cfgVars, srcVars, mwVars, rfvVars, poiVars>>

\* the body of fillIndices on its argument
fillIndices ==
  /\ pc = "fillIndices"
  /\ LET r == FillIndicesResult(arg, m_useIndices, m_numChannels, ndebug)
     IN  /\ m_useIndices' = r.idx
         /\ status' = r.st
  /\ pc' = "idle"
  /\ UNCHANGED <<arg, atEntry, cfgVars, srcVars, mwVars, rfvVars, poiVars>>

\* setReBin(flag)
setReBin(flag) ==
  /\ Ready
  /\ m_reBin' = flag
  /\ UNCHANGED <<pc, status, fillVars, ndebug, m_numChannels, m_editRFV, srcVars, mwVars, rfvVars, poiVars>>

\* makeWorkspace without the test of the selection's size
makeWorkspaceBeginNoCheck ==
  /\ Ready
  /\ pc' = "mw_loop"
  /\ UNCHANGED <<status, fillVars, cfgVars, srcVars, mwVars, rfvVars, poiVars>>

\* makeWorkspace up to the channel loop: an empty selection is warned about
\* and the function returns
makeWorkspaceBegin ==
  /\ Ready
  /\ pc' = IF Len(m_useIndices) = 0 THEN "returned" ELSE "mw_loop"
  /\ UNCHANGED <<status, fillVars, cfgVars, srcVars, mwVars, rfvVars, poiVars>>

\* one iteration of the channel loop
makeWorkspaceChannel ==
  /\ pc = "mw_loop"
  /\ mw_i < Len(m_useIndices)
  /\ LET index == m_useIndices[mw_i + 1]
         bin == SetBin(catBin, index, m_numChannels)
         channelName == CatLabel(bin)
         pdfNull == bin \in noPdf          \* m_pdf->getPdf(channelName)
         dataNull == bin \in renamed       \* m_dataList->FindObject(channelName)
     IN  /\ catBin' = bin
         /\ subCat' = DefineType(subCat, channelName)
         /\ IF pdfNull \/ dataNull
            THEN \* getObservables is called through or on a null pointer
                 /\ pc' = "mw_missing"
                 /\ status' \in {"crashed", "undefined"}
                 /\ UNCHANGED <<renamed, mw_i, subSets, subPdfMap, subDataMap, dataPath>>
            ELSE LET h == HandleDataset(chanData[bin], m_reBin)
                 IN  /\ subSets' = ClassifyLoop(chanPars[bin], m_mc, constPars, subSets)
                     /\ subPdfMap' = (channelName :> bin) @@ subPdfMap
                     /\ subDataMap' = (channelName :> h.data) @@ subDataMap
                     /\ dataPath' = Append(dataPath, [bin |-> bin, path |-> h.path])
                     /\ renamed' = IF h.path = "rebin" THEN renamed \cup {bin} ELSE renamed
                     /\ mw_i' = mw_i + 1
                     /\ UNCHANGED <<pc, status>>
  /\ UNCHANGED <<fillVars, cfgVars, srcVars, subData, outputWritten, snapVars, rfvVars, poiVars>>

\* the parameters subComb has after the import of subPdf
SubParams == UNION { SeqRange(chanPars[subPdfMap[l]]) : l \in DOMAIN subPdfMap }

\* after the loops: subPdf is imported (its parameters are copied with their
\* values), the dataset is composed, the ModelConfig is set
makeWorkspaceFinish ==
  /\ pc = "mw_loop"
  /\ mw_i = Len(m_useIndices)
  /\ m_editRFV < 0 \/ edit_i = Len(components)
  /\ subData' = ComposeData(SortedLabels, subDataMap)
  /\ subVals' = [p \in SubParams |-> srcVals[p]]
  /\ pc' = "mw_snap"
  /\ UNCHANGED <<status, fillVars, cfgVars, srcVars, renamed, catBin, mw_i, subCat, subSets,
                 subPdfMap, subDataMap, dataPath, outputWritten, srcVals, valsBefore,
                 subSnapshots, snap_i, rfvVars, poiVars>>

\* one iteration of the loop over m_snapshots
makeWorkspaceSnapshot ==
  /\ pc = "mw_snap"
  /\ snap_i < Len(m_snapshots)
  /\ LET snapshotName == m_snapshots[snap_i + 1]
         r == CopySnapshot(subVals, subSnapshots, srcSnapshots, snapshotName)
     IN  /\ srcVals' = LoadSnapshot(srcVals, srcSnapshots, snapshotName)
         /\ valsBefore' = subVals
         /\ subSnapshots' = r.snaps
         /\ subVals' = r.vals
  /\ snap_i' = snap_i + 1
  /\ UNCHANGED <<pc, status, fillVars, cfgVars, srcVars, renamed, catBin, mw_i, subCat, subSets,
                 subPdfMap, subDataMap, dataPath, subData, outputWritten, rfvVars, poiVars>>

\* after the snapshot loop: the output file is written
makeWorkspaceWrite ==
  /\ pc = "mw_snap"
  /\ snap_i = Len(m_snapshots)
  /\ outputWritten' = TRUE
  /\ pc' = "done"
  /\ UNCHANGED <<status, fillVars, cfgVars, srcVars, renamed, catBin, mw_i, subCat, subSets,
                 subPdfMap, subDataMap, dataPath, subData, snapVars, rfvVars, poiVars>>

\* setEditRFV(flag)
setEditRFV(flag) ==
  /\ Ready
  /\ m_editRFV' = flag
  /\ UNCHANGED <<pc, status, fillVars, ndebug, m_numChannels, m_reBin, srcVars, mwVars, rfvVars, poiVars>>

\* one iteration of the loop over the components of subPdf
makeWorkspaceEdit ==
  /\ pc = "mw_loop"
  /\ mw_i = Len(m_useIndices)
  /\ m_editRFV >= 0
  /\ edit_i < Len(components)
  /\ \E tieUp \in BOOLEAN :
       LET id == components[edit_i + 1]
           newVar == editRFV(id, nodes, m_editRFV, tieUp)
       IN  /\ rfvOut' = Append(rfvOut, [id |-> id, res |-> newVar])
           /\ IF newVar.kind = "nullref"
              THEN /\ pc' = "mw_nullref"
                   /\ status' \in {"crashed", "undefined"}
                   /\ UNCHANGED edit_i
              ELSE /\ edit_i' = edit_i + 1
                   /\ UNCHANGED <<pc, status>>
  /\ UNCHANGED <<fillVars, cfgVars, srcVars, mwVars, poiVars>>

\* formula nodes f and g with every expression and every list of dependents
InitRFV ==
  /\ InitSplitter
  /\ BatchIdle
  /\ NoSnapshots
  /\ ndebug = FALSE
  /\ m_numChannels = 1
  /\ m_mc = DefaultMc
  /\ constPars = {}
  /\ chanPars = [bin \in 0..(m_numChannels - 1) |-> ParTable[bin + 1]]
  /\ noPdf = {}
  /\ chanData = [bin \in 0..(m_numChannels - 1) |-> DefaultData(bin)]
  /\ \E expr \in Exprs, deps \in DepLists, childExpr \in ChildExprs :
       /\ nodes = NodesOf(expr, deps, childExpr)
       /\ HasChild(nodes) \/ childExpr = <<"a", "+", "a", "b">>
  /\ components = IF HasChild(nodes) THEN <<1, 2>> ELSE <<1>>

\* selections for the runs of makeWorkspace
SplitInputs ==
  { <<"a", "l", "l">>, <<"0">>, <<"0", ",", "2">>, <<"2", ",", "0">>, <<"1", "-", "2">>,
    <<"0", ",", "0">>, <<"1", ",", "7">>, <<"2", "-", "1">> }

NextFill ==
  \/ \E indices \in FillInputs : CallFillIndices(indices)
  \/ fillIndices

NextSplit ==
  \/ \E indices \in SplitInputs : CallFillIndices(indices)
  \/ fillIndices
  \/ \E flag \in (-1)..MaxBins : setReBin(flag)
  \/ makeWorkspaceBegin
  \/ makeWorkspaceChannel
  \/ makeWorkspaceFinish
  \/ makeWorkspaceWrite

\* the driver leaves the rebin target alone
NextModel ==
  \/ \E indices \in SplitInputs : CallFillIndices(indices)
  \/ fillIndices
  \/ makeWorkspaceBegin
  \/ makeWorkspaceChannel
  \/ makeWorkspaceFinish
  \/ makeWorkspaceWrite

\* the driver sets the formula edit mode
NextRFV ==
  \/ CallFillIndices(<<"a", "l", "l">>)
  \/ fillIndices
  \/ \E flag \in (-1)..2 : setEditRFV(flag)
  \/ makeWorkspaceBegin
  \/ makeWorkspaceChannel
  \/ makeWorkspaceEdit
  \/ makeWorkspaceFinish
  \/ makeWorkspaceWrite

\* snapshot names and source snapshots of every shape
SnapshotNames == {"nominal", TmpName, "absent"}

SnapshotLists == UNION { [1..k -> SnapshotNames] : k \in 0..MaxSnapshots }

ParValues == 0..1

\* a snapshot holds values of some of the source's parameters
SnapshotSets == UNION { [ps -> ParValues] : ps \in (SUBSET Names) \ {{}} }

SourceSnapshots ==
  UNION { [ns -> SnapshotSets] : ns \in SUBSET {"nominal", TmpName} }

\* a two-channel source with snapshots; the second channel has no mu
InitSnap ==
  /\ InitSplitter
  /\ BatchIdle
  /\ nodes = DefaultNodes
  /\ components = <<1>>
  /\ ndebug = FALSE
  /\ m_numChannels = 2
  /\ m_mc = DefaultMc
  /\ constPars = {}
  /\ chanPars = [bin \in 0..(m_numChannels - 1) |-> ParTable[bin + 1]]
  /\ noPdf = {}
  /\ chanData = [bin \in 0..(m_numChannels - 1) |-> DefaultData(bin)]
  /\ m_snapshots \in SnapshotLists
  /\ srcSnapshots \in SourceSnapshots
  /\ srcVals \in [Names -> ParValues]

NextSnap ==
  \/ \E indices \in {<<"a", "l", "l">>, <<"1">>} : CallFillIndices(indices)
  \/ fillIndices
  \/ makeWorkspaceBegin
  \/ makeWorkspaceChannel
  \/ makeWorkspaceFinish
  \/ makeWorkspaceSnapshot
  \/ makeWorkspaceWrite

SpecSnap == InitSnap /\ [][NextSnap]_vars

----------------------------------------------------------------------------
(* replace_POI_with_product.C *)

\* a FileEntry; a path is written from modified_ws/ on
FileEntry(inputfilePath, outputfilePath, workspaceName, variable_name, channelname) ==
  [inputfilePath |-> inputfilePath, outputfilePath |-> outputfilePath,
   workspaceName |-> workspaceName, variable_name |-> variable_name,
   channelname |-> channelname]

HTauTauEntries(path) ==
  << FileEntry(path, path, "combined", "chbtilde", "HTauTau"),
     FileEntry(path, path, "combined", "chwtilde", "HTauTau"),
     FileEntry(path, path, "combined", "chbwtilde", "HTauTau") >>

HWWEntries(path) ==
  << FileEntry(path, path, "HWW_ggFVBF_DPhijj_comb", "cHWBtil", "HWW"),
     FileEntry(path, path, "HWW_ggFVBF_DPhijj_comb", "cHWtil", "HWW"),
     FileEntry(path, path, "HWW_ggFVBF_DPhijj_comb", "cHBtil", "HWW") >>

HZZEntries(path) ==
  << FileEntry(path, path, "combined", "cHWBtil", "HZZ"),
     FileEntry(path, path, "combined", "cHBtil", "HZZ"),
     FileEntry(path, path, "combined", "cHWtil", "HZZ") >>

HbbEntries(path) == << FileEntry(path, path, "combined", "cHWtil", "Hbb") >>

\* the global list of entries
files ==
  HTauTauEntries("hTau/HTauTau_Data_linear.root") \o HWWEntries("hWW/HWW_Data_linear.root") \o
  HZZEntries("hZZ/HZZ_Data_linear.root") \o HbbEntries("hbb/hbb_Data_linear.root") \o
  HTauTauEntries("hTau/HTauTau_Data_quad.root") \o HWWEntries("hWW/HWW_Data_quad.root") \o
  HZZEntries("hZZ/HZZ_Data_quad.root") \o HbbEntries("hbb/hbb_Data_quad.root")

Paths == { files[k].inputfilePath : k \in 1..Len(files) }

\* RooArgSet::remove by name
RemoveArg(set, name) ==
  LET keep == {i \in 1..Len(set) : set[i] # name}
      nth(k) == CHOOSE i \in keep : Cardinality({j \in keep : j < i}) = k - 1
  IN  [k \in 1..Cardinality(keep) |-> set[nth(k)]]

\* allPOI with the two new variables added and the old one kept
AllPOIKeepOld(poi, variable_name, channelname) ==
  AddArg(AddArg(poi, variable_name \o "_combine"), variable_name \o "_" \o channelname)

\* allPOI as handed to SetParametersOfInterest: the POIs of the ModelConfig
\* read, without the variable, with the two new variables
AllPOI(poi, variable_name, channelname) ==
  AddArg(AddArg(RemoveArg(poi, variable_name), variable_name \o "_combine"),
         variable_name \o "_" \o channelname)

\* replace_cHWtil_with_product on one entry: the files after it and the
\* message printed
replace_cHWtil_with_product(d, entry) ==
  LET in == d[entry.inputfilePath]
  IN  IF ~in.exists \/ in.wsName # entry.workspaceName \/ ~in.hasMc
      THEN [disk |-> d, msg |-> "skipped"]
      ELSE [disk |-> [d EXCEPT ![entry.outputfilePath] =
                        [exists |-> TRUE, wsName |-> entry.workspaceName, hasMc |-> TRUE,
                         poi |-> AllPOI(in.poi, entry.variable_name, entry.channelname),
                         writes |-> d[entry.outputfilePath].writes + 1]],
            msg |-> "written"]

\* one iteration of the loop of replace_POI_with_product
replace_POI_with_product ==
  /\ poi_i < Len(files)
  /\ LET r == replace_cHWtil_with_product(disk, files[poi_i + 1])
     IN  /\ disk' = r.disk
         /\ batchLog' = Append(batchLog, r.msg)
  /\ poi_i' = poi_i + 1
  /\ UNCHANGED <<pc, status, fillVars, cfgVars, srcVars, mwVars, rfvVars, origPoi>>

\* the variables the entries of a path name, in entry order
RECURSIVE VariablesOf(_, _)
VariablesOf(path, k) ==
  IF k > Len(files) THEN <<>>
  ELSE (IF files[k].inputfilePath = path THEN <<files[k].variable_name>> ELSE <<>>)
       \o VariablesOf(path, k + 1)

\* the workspace name the entries of a path give
WorkspaceOf(path) ==
  files[CHOOSE k \in 1..Len(files) : files[k].inputfilePath = path].workspaceName

\* what the files may hold before the batch: the entries' variables as
\* POIs, a further POI before them, or the further POI alone
PoiShapes == {"variables", "more", "others"}

PoiOf(path, shape) ==
  CASE shape = "variables" -> VariablesOf(path, 1)
    [] shape = "more" -> <<"mu">> \o VariablesOf(path, 1)
    [] OTHER -> <<"mu">>

\* a file that is missing, has no workspace of the name, or no ModelConfig
BrokenKinds == {"nofile", "nows", "nomc"}

FileOf(path, kind, poi) ==
  [exists |-> kind # "nofile",
   wsName |-> IF kind = "nows" THEN "other" ELSE WorkspaceOf(path),
   hasMc |-> kind # "nomc",
   poi |-> poi, writes |-> 0]

\* the files before the batch: up to MaxBroken of them cannot be loaded
InitPoi ==
  /\ InitSplitter
  /\ NoSnapshots
  /\ nodes = DefaultNodes
  /\ components = <<1>>
  /\ ndebug = FALSE
  /\ m_numChannels = 1
  /\ m_mc = DefaultMc
  /\ constPars = {}
  /\ chanPars = [bin \in 0..(m_numChannels - 1) |-> ParTable[bin + 1]]
  /\ noPdf = {}
  /\ chanData = [bin \in 0..(m_numChannels - 1) |-> DefaultData(bin)]
  /\ \E shape \in PoiShapes : origPoi = [path \in Paths |-> PoiOf(path, shape)]
  /\ \E broken \in SUBSET Paths : \E kind \in BrokenKinds :
       /\ Cardinality(broken) <= MaxBroken
       /\ disk = [path \in Paths |->
                    FileOf(path, IF path \in broken THEN kind ELSE "ok", origPoi[path])]
  /\ poi_i = 0
  /\ batchLog = <<>>

NextPoi == replace_POI_with_product

SpecPoi == InitPoi /\ [][NextPoi]_vars

SpecFill == InitFill /\ [][NextFill]_vars
SpecRFV == InitRFV /\ [][NextRFV]_vars
SpecModel == InitModel /\ [][NextModel]_vars
SpecData == InitData /\ [][NextSplit]_vars

----------------------------------------------------------------------------
(* What a range specification spells out, read off the text position by    *)
(* position (independently of Tokenize and Atoi).                          *)

NoBlanks(s) == LET keep == {i \in 1..Len(s) : s[i] # " "}
                   nth(k) == CHOOSE i \in keep : Cardinality({j \in keep : j < i}) = k - 1
               IN  [k \in 1..Cardinality(keep) |-> s[nth(k)]]

\* the pieces of s between the separators, in order, empty pieces included
PiecesAt(s, sep) ==
  LET cuts == {0, Len(s) + 1} \cup {i \in 1..Len(s) : s[i] = sep}
      starts == cuts \ {Len(s) + 1}
      nth(k) == CHOOSE a \in starts : Cardinality({b \in starts : b < a}) = k - 1
      nxt(a) == CHOOSE b \in cuts : b > a /\ \A c \in cuts : c > a => b <= c
  IN  [k \in 1..Cardinality(starts) |-> SubSeq(s, nth(k) + 1, nxt(nth(k)) - 1)]

Pieces(s) == PiecesAt(s, ",")

IsNumber(t) == t # <<>> /\ \A i \in 1..Len(t) : IsDigit(t[i])

RECURSIVE Pow10(_)
Pow10(n) == IF n = 0 THEN 1 ELSE 10 * Pow10(n - 1)

RECURSIVE SumTo(_, _)
\* f[1] + ... + f[n]
SumTo(f, n) == IF n = 0 THEN 0 ELSE f[n] + SumTo(f, n - 1)

\* the decimal value of a digit string, by place value
NumberValue(t) == SumTo([i \in 1..Len(t) |-> DigitVal(t[i]) * Pow10(Len(t) - i)], Len(t))

\* the position of the dash of a two-part range lo-hi, 0 when t is none
DashAt(t) ==
  LET ds == {i \in 1..Len(t) : t[i] = "-"}
  IN  IF Cardinality(ds) = 1 THEN CHOOSE i \in ds : TRUE ELSE 0

IsRangeSyntax(t) ==
  /\ DashAt(t) # 0
  /\ IsNumber(SubSeq(t, 1, DashAt(t) - 1))
  /\ IsNumber(SubSeq(t, DashAt(t) + 1, Len(t)))

RangeLo(t) == NumberValue(SubSeq(t, 1, DashAt(t) - 1))
RangeHi(t) == NumberValue(SubSeq(t, DashAt(t) + 1, Len(t)))

WellFormedToken(t) == IsNumber(t) \/ (IsRangeSyntax(t) /\ RangeLo(t) <= RangeHi(t))

IsAllWord(s) ==
  /\ Len(s) = 3
  /\ s[1] \in {"a", "A"} /\ s[2] \in {"l", "L"} /\ s[3] \in {"l", "L"}

\* every comma-separated piece is a number or a range lo-hi with lo <= hi
WellFormedList(s) == \A k \in 1..Len(Pieces(NoBlanks(s))) : WellFormedToken(Pieces(NoBlanks(s))[k])

WellFormedSpec(s) == IsAllWord(s) \/ WellFormedList(s)

\* some non-empty piece is neither a number nor a range lo-hi with lo <= hi
MalformedSpec(s) ==
  /\ ~IsAllWord(s)
  /\ \E k \in 1..Len(Pieces(NoBlanks(s))) :
       LET t == Pieces(NoBlanks(s))[k] IN t # <<>> /\ ~WellFormedToken(t)

TokenSpelled(t) == IF IsNumber(t) THEN <<NumberValue(t)>> ELSE Range(RangeLo(t), RangeHi(t))

RECURSIVE ConcatAll(_)
ConcatAll(ss) == IF ss = <<>> THEN <<>> ELSE Head(ss) \o ConcatAll(Tail(ss))

Spelled(s, num) ==
  IF IsAllWord(s) THEN [k \in 1..num |-> k - 1]
  ELSE ConcatAll([k \in 1..Len(Pieces(NoBlanks(s))) |-> TokenSpelled(Pieces(NoBlanks(s))[k])])

----------------------------------------------------------------------------
(* C1: after fillIndices has run on a well-formed range specification, the  *)
(* run has not aborted and m_useIndices is what it was on entry followed by *)
(* exactly the indices the specification spells out: 0..N-1 for "all" in    *)
(* any letter case, otherwise each token's integer or inclusive range, in   *)
(* token order, duplicates kept and nothing sorted.                         *)
C1_FillIndicesSpelled ==
  (pc = "idle" /\ WellFormedSpec(arg)) =>
    /\ status = "running"
    /\ m_useIndices = atEntry \o Spelled(arg, m_numChannels)

\* "0-2,5" has been parsed on a fresh splitter and gave [0,1,2,5]
C1_Witness ==
  /\ pc = "idle"
  /\ arg = <<"0", "-", "2", ",", "5">>
  /\ WellFormedSpec(arg)
  /\ m_useIndices = <<0, 1, 2, 5>>

\* a second call has appended a range out of order and a duplicate
C1_WitnessAppend ==
  /\ pc = "idle"
  /\ atEntry = <<2>>
  /\ arg = <<"1", "-", "2", ",", "2">>
  /\ m_useIndices = <<2, 1, 2, 2>>

(* C2: fillIndices aborts the run for every malformed range specification  *)
(* (a token that is neither an integer nor a range lo-hi, or a range with   *)
(* lo > hi).                                                                *)
C2_MalformedAborts ==
  (pc = "idle" /\ MalformedSpec(arg)) => status = "aborted"

----------------------------------------------------------------------------
(* Reading the state of makeWorkspace *)

InMakeWorkspace ==
  pc \in {"returned", "mw_loop", "mw_missing", "mw_nullref", "mw_snap", "done"}

\* the names met so far in the loop over indivNuis
Encountered == UNION { SeqRange(chanPars[dataPath[k].bin]) : k \in 1..Len(dataPath) }

\* the output sets that hold the name v
InSets(v) == { r \in {"poi", "gobs", "cobs", "nuis"} : v \in SeqRange(subSets[r]) }

\* the one outcome the precedence gives the name v
Outcome(v) ==
  CASE v \in m_mc.poi -> {"poi"}
    [] v \notin m_mc.poi /\ v \in m_mc.gobs -> {"gobs"}
    [] v \notin m_mc.poi \cup m_mc.gobs /\ m_mc.hasCobs /\ v \in m_mc.cobs -> {"cobs"}
    [] OTHER -> IF v \in constPars THEN {} ELSE {"nuis"}

NoDuplicates(q) == Cardinality(SeqRange(q)) = Len(q)

(* C3: at every point of the channel loop and after it, every parameter     *)
(* name met so far is in exactly the one output set the precedence POI,     *)
(* global observable, conditional observable (only when the source model    *)
(* declares any), nuisance (when not constant) gives it, or in none when it *)
(* is dropped; it is there once, and names not met are in no set.           *)
C3_RoleExclusive ==
  InMakeWorkspace =>
    /\ \A v \in Names : InSets(v) = IF v \in Encountered THEN Outcome(v) ELSE {}
    /\ \A r \in {"poi", "gobs", "cobs", "nuis"} : NoDuplicates(subSets[r])

\* mu is a POI and a global observable of the source, theta a conditional
\* observable; both were met in two channels
C3_Witness ==
  /\ pc = "done"
  /\ Len(dataPath) = 2 /\ dataPath[1].bin = 0 /\ dataPath[2].bin = 2
  /\ "mu" \in m_mc.poi \cap m_mc.gobs
  /\ m_mc.hasCobs /\ "theta" \in m_mc.cobs \ (m_mc.poi \cup m_mc.gobs)
  /\ subSets = [poi |-> <<"mu">>, gobs |-> <<>>, cobs |-> <<"theta">>, nuis |-> <<>>]

\* the selected bins in the order of their first selection
FirstSelected(q) ==
  LET keep == {k \in 1..Len(q) : \A j \in 1..(k - 1) : q[j] # q[k]}
      nth(n) == CHOOSE k \in keep : Cardinality({j \in keep : j < k}) = n - 1
  IN  [n \in 1..Cardinality(keep) |-> q[nth(n)]]

AllValid == \A k \in 1..Len(m_useIndices) : m_useIndices[k] \in 0..(m_numChannels - 1)

RECURSIVE EntriesOf(_)
\* the summed entry counts of the source datasets of a set of bins
EntriesOf(bins) ==
  IF bins = {} THEN 0
  ELSE LET b == CHOOSE b \in bins : TRUE IN Len(chanData[b]) + EntriesOf(bins \ {b})

(* C4: when makeWorkspace has finished with rebinning disabled on a         *)
(* selection of indices of the source category, the output category holds   *)
(* exactly the labels of the selected channels in the order of selection (a *)
(* channel selected twice is defined once, where it was first selected) and *)
(* the composed dataset has as many entries as the selected channels'       *)
(* datasets together.                                                       *)
C4_LabelsAndEntries ==
  (pc = "done" /\ m_reBin <= 0 /\ AllValid) =>
    /\ subCat = [n \in 1..Len(FirstSelected(m_useIndices)) |->
                   CatLabel(FirstSelected(m_useIndices)[n])]
    /\ Len(subData) = EntriesOf(SeqRange(m_useIndices))

\* a 3-channel source, selection "0,2"
C4_Witness ==
  /\ pc = "done" /\ m_reBin <= 0
  /\ m_numChannels = 3
  /\ m_useIndices = <<0, 2>>
  /\ subCat = <<"ggF", "VH">>
  /\ Len(chanData[0]) = 2
  /\ Len(subData) = 5

(* C7: with a positive rebin target, every channel with fewer entries than  *)
(* the target and every channel whose entry count differs from its summed   *)
(* weight takes the direct-rebuild path.                                    *)
C7_RebinThreshold ==
  \A k \in 1..Len(dataPath) :
    LET d == chanData[dataPath[k].bin]
    IN  (m_reBin > 0 /\ (Len(d) < m_reBin \/ 2 * Len(d) # SumW(d))) => dataPath[k].path = "direct"

\* the path the loop took last for a bin
LastPath(bin) ==
  LET ks == {k \in 1..Len(dataPath) : dataPath[k].bin = bin}
  IN  dataPath[CHOOSE k \in ks : \A j \in ks : j <= k].path

(* C8: a dataset rebuilt on the direct path has one event per source event, *)
(* in source order, each with the source event's weight, hence the same     *)
(* entry count and the same summed weight as its source.                    *)
C8_WeightConserved ==
  \A l \in DOMAIN subDataMap :
    LET src == chanData[subPdfMap[l]]
        new == subDataMap[l]
    IN  LastPath(subPdfMap[l]) = "direct" =>
          /\ Len(new) = Len(src)
          /\ \A j \in 1..Len(src) : new[j].w = src[j].w /\ new[j].x = src[j].x
          /\ SumW(new) = SumW(src)

\* a dataset with the weights 1.5 and 0.5 was rebuilt while a rebin target was set
C8_Witness ==
  /\ pc = "done" /\ m_reBin > 0
  /\ \E l \in DOMAIN subDataMap :
       /\ LastPath(subPdfMap[l]) = "direct"
       /\ Len(subDataMap[l]) = 2
       /\ subDataMap[l][1].w = 3 /\ subDataMap[l][2].w = 1
       /\ SumW(chanData[subPdfMap[l]]) = 4

(* C9: where the lookup of a selected channel's density or dataset gave    *)
(* nothing, the run has been aborted by a fatal error and no output file is *)
(* written.                                                                 *)
C9_MissingAborts ==
  (pc = "mw_missing" /\ AllValid) => (status = "aborted" /\ ~outputWritten)

(* C10: makeWorkspace on an empty selection returns normally: the run is   *)
(* not aborted, nothing is built and no output file is written; it returns  *)
(* early for no other selection.                                            *)
C10_EmptySelection ==
  InMakeWorkspace =>
    /\ (m_useIndices = <<>>) <=> (pc = "returned")
    /\ pc = "returned" =>
         (status = "running" /\ ~outputWritten /\ subCat = <<>> /\ subData = <<>>)

\* the selection is empty because "2-1" was given to a build without assert
C10_Witness ==
  /\ pc = "returned"
  /\ m_useIndices = <<>>
  /\ arg = <<"2", "-", "1">> /\ ndebug

----------------------------------------------------------------------------
(* Reading formula expressions *)

HasAt(e) == \E i \in 1..Len(e) : e[i] = "@"

\* x[ ... ] occurs in the text
Bracketed(e) ==
  \E i \in 1..(Len(e) - 1) :
    /\ e[i] = "x" /\ e[i + 1] = "["
    /\ \E j \in (i + 2)..Len(e) : e[j] = "]"

RawNamed(e) == ~HasAt(e) /\ ~Bracketed(e)

\* the cases in which editRFV is to report "no change"
NoChange(e, mode) ==
  \/ HasAt(e)
  \/ Bracketed(e) /\ mode < 2
  \/ RawNamed(e) /\ mode < 1

(* C5: editRFV on a component returns the null "no change" result exactly  *)
(* when the expression contains '@' (in every mode), or uses x[i] and the   *)
(* mode is below 2, or uses raw names and the mode is below 1; in every     *)
(* other case it returns a rewritten node.                                  *)
C5_NullExactly ==
  \A k \in 1..Len(rfvOut) :
    IF NoChange(nodes[rfvOut[k].id].expr, m_editRFV)
    THEN rfvOut[k].res.kind = "null"
    ELSE rfvOut[k].res.kind = "node"

\* the same without the second half: null exactly in the three cases
C5_NullOnlyIf ==
  \A k \in 1..Len(rfvOut) :
    (rfvOut[k].res.kind = "null") => NoChange(nodes[rfvOut[k].id].expr, m_editRFV)

Terms(e) == PiecesAt(e, "+")

(* C6: in the raw-name rewrite, every term of the expression that is the   *)
(* name of dependent number i (counted from 0 in the node's dependent      *)
(* order) is the label @i in the new expression, also when a shorter        *)
(* dependent name is a substring of it; the terms stay as many as they were.*)
C6_LongestFirst ==
  \A k \in 1..Len(rfvOut) :
    LET old == nodes[rfvOut[k].id]
        new == rfvOut[k].res
    IN  (new.kind = "node" /\ RawNamed(old.expr)) =>
          /\ Len(Terms(new.expr)) = Len(Terms(old.expr))
          /\ \A t \in 1..Len(Terms(old.expr)) : \A i \in 1..Len(old.deps) :
               old.deps[i].name = Terms(old.expr)[t] =>
                 Terms(new.expr)[t] = <<"@", Digits[i]>>

\* dependents a, ab, abc and the expression "ab+abc", rewritten to "@1+@2"
C6_Witness ==
  /\ m_editRFV = 1
  /\ Len(rfvOut) >= 1
  /\ rfvOut[1].id = 1
  /\ nodes[1].expr = <<"a", "b", "+", "a", "b", "c">>
  /\ [i \in 1..Len(nodes[1].deps) |-> nodes[1].deps[i].name] = <<NameA, NameAB, NameABC>>
  /\ rfvOut[1].res.kind = "node"
  /\ rfvOut[1].res.expr = <<"@", "1", "+", "@", "2">>

\* the "no change" result is met at a formula dependent of the parent
NestedUnchanged(old, i) ==
  /\ old.deps[i].rfv # 0
  /\ NoChange(nodes[old.deps[i].rfv].expr, m_editRFV)

(* C11: a null result of editRFV means "keep the original node" to both of  *)
(* its callers: the component loop goes on, and a parent whose formula      *)
(* dependent needs no change gets a new node whose dependency list holds    *)
(* the original dependent at its position; no null result is dereferenced.  *)
C11_NullKeepsOriginal ==
  /\ pc # "mw_nullref"
  /\ \A k \in 1..Len(rfvOut) :
       LET old == nodes[rfvOut[k].id]
           new == rfvOut[k].res
       IN  /\ new.kind # "nullref"
           /\ (~NoChange(old.expr, m_editRFV) /\ new.kind = "node") =>
                /\ Len(new.deps) = Len(old.deps)
                /\ \A i \in 1..Len(old.deps) :
                     NestedUnchanged(old, i) =>
                       new.deps[i] = [kind |-> "arg", name |-> old.deps[i].name]

----------------------------------------------------------------------------
(* The histogram of the rebin path *)

\* the bins 1..n with a content other than 0
NonEmptyBins(d, n) == {i \in 1..n : BinContent(d, i, n) # 0}

\* one event per non-empty bin, in bin order: bin centre and bin content
OnePerNonEmptyBin(d, n) ==
  LET keep == NonEmptyBins(d, n)
      nth(k) == CHOOSE i \in keep : Cardinality({j \in keep : j < i}) = k - 1
  IN  [k \in 1..Cardinality(keep) |->
         [x |-> BinCenter(nth(k), n), w |-> BinContent(d, nth(k), n)]]

(* C12: a dataset made on the rebin path holds exactly one event per        *)
(* non-empty bin of the histogram of the channel's observable, with the bin *)
(* centre as value and the bin content as weight, and no event for an empty *)
(* bin.                                                                     *)
C12_NoEmptyBinEvent ==
  \A l \in DOMAIN subDataMap :
    LastPath(subPdfMap[l]) = "rebin" =>
      subDataMap[l] = OnePerNonEmptyBin(chanData[subPdfMap[l]], m_reBin)

----------------------------------------------------------------------------
(* C14: while makeWorkspace runs on a selection that fillIndices built     *)
(* without aborting, every index of the selection, hence every index the   *)
(* channel loop hands to setBin, is an index 0..N-1 of the source category. *)
C14_SelectionInRange ==
  (InMakeWorkspace /\ status = "running") =>
    \A k \in 1..Len(m_useIndices) :
      m_useIndices[k] >= 0 /\ m_useIndices[k] < m_numChannels

----------------------------------------------------------------------------
(* Snapshots of the output model *)

\* the values a copy of the source snapshot has in the output model: those
\* of the parameters the output model has
CopiedValues(name) ==
  [p \in DOMAIN subVals \cap DOMAIN srcSnapshots[name] |-> srcSnapshots[name][p]]

\* the snapshot names the loop has been through
CopiedNames == { m_snapshots[k] : k \in 1..snap_i }

(* C13: in and after the snapshot loop, every name gone through that the   *)
(* source model has a snapshot for is a snapshot of the output model with   *)
(* the source snapshot's values, and the output model's current values are  *)
(* what they were before the last snapshot was copied.                      *)
C13_SnapshotsCopied ==
  pc \in {"mw_snap", "done"} =>
    /\ \A n \in CopiedNames \cap DOMAIN srcSnapshots :
         n \in DOMAIN subSnapshots /\ subSnapshots[n] = CopiedValues(n)
    /\ snap_i > 0 => subVals = valsBefore

\* the same for lists of names other than the temporary snapshot's
C13_WithoutTmpName ==
  (pc \in {"mw_snap", "done"} /\ TmpName \notin SeqRange(m_snapshots)) =>
    /\ \A n \in CopiedNames \cap DOMAIN srcSnapshots :
         n \in DOMAIN subSnapshots /\ subSnapshots[n] = CopiedValues(n)
    /\ snap_i > 0 => subVals = valsBefore

----------------------------------------------------------------------------
(* The batch of POI replacements *)

\* the entries gone through that wrote their file
Written == { k \in 1..poi_i : batchLog[k] = "written" }

\* the variables replaced so far in the file of a path
ReplacedIn(path) == { files[k].variable_name : k \in {j \in Written : files[j].inputfilePath = path} }

(* C15: the entries are gone through in list order, each reading the file   *)
(* it overwrites.  After every prefix, the POI set of the file of an entry  *)
(* that was written has not the entry's variable, has <variable>_combine   *)
(* and <variable>_<channel> (also those of earlier entries of the file),    *)
(* and has every original POI that no entry has replaced; an entry whose    *)
(* file, workspace or ModelConfig does not load writes nothing and the next *)
(* entry is gone through.                                                   *)
C15_PoiReplaced ==
  /\ Len(batchLog) = poi_i
  /\ \A k \in 1..Len(files) : files[k].inputfilePath = files[k].outputfilePath
  /\ \A k \in Written :
       LET e == files[k]
           poi == SeqRange(disk[e.outputfilePath].poi)
       IN  /\ e.variable_name \notin poi
           /\ (e.variable_name \o "_combine") \in poi
           /\ (e.variable_name \o "_" \o e.channelname) \in poi
           /\ \A v \in SeqRange(origPoi[e.inputfilePath]) \ ReplacedIn(e.inputfilePath) : v \in poi
  /\ \A path \in DOMAIN disk :
       /\ disk[path].writes = Cardinality({k \in Written : files[k].outputfilePath = path})
       /\ disk[path].writes = 0 => disk[path].poi = origPoi[path]
  /\ \A k \in (1..poi_i) \ Written :
       LET was == FileOf(files[k].inputfilePath, "ok", origPoi[files[k].inputfilePath])
       IN  disk[files[k].inputfilePath] # was /\ disk[files[k].inputfilePath].writes = 0

\* the batch is through: the first file was missing and its three entries
\* were skipped, the entries after them were written; the first hWW file has
\* its three pairs and the POI it had besides
C15_Witness ==
  /\ poi_i = Len(files)
  /\ SubSeq(batchLog, 1, 4) = <<"skipped", "skipped", "skipped", "written">>
  /\ ~disk["hTau/HTauTau_Data_linear.root"].exists
  /\ disk["hWW/HWW_Data_linear.root"].poi =
       <<"mu", "cHWBtil_combine", "cHWBtil_HWW", "cHWtil_combine", "cHWtil_HWW",
         "cHBtil_combine", "cHBtil_HWW">>

====
